---- MODULE Spec2Model ----
(***************************************************************************)
(* A model of dynamodb-lock-client (src/index.ts): the FailOpen            *)
(* acquisition protocol (read, wait, conditional write, bounded retries)   *)
(* and the Lock lifecycle (heartbeat renewal, release, and the deferral of *)
(* a release behind an in-flight renewal), run by several clients against  *)
(* one lock record of a store with atomic conditional writes.              *)
(*                                                                         *)
(* Every storage call is two steps: the handler that sends it, and its     *)
(* completion, in which the store evaluates it atomically and the callback *)
(* runs with the answer.  Between the two, any other client may act.  Time *)
(* is a global millisecond clock; a timer may fire at or after its         *)
(* deadline, never before.                                                 *)
(***************************************************************************)
EXTENDS Integers, Sequences, FiniteSets, TLC

\* ------------------------------------------------------------- bounds
MaxTime == 4
MaxRenewals == 2
MaxReleaseCalls == 2
MaxFaults == 1

\* ---------------------------------------------------- program constants
\* `parseInt(data.Item.leaseDuration) || 10000`, `config.leaseDuration || 10000`
DefaultLeaseDuration == 10000
\* `this.config.retryCount ?? 1`
DefaultRetryCount == 1

\* An optional number (undefined or a value) is << >> or <<v>>.
Undefined == << >>
Some(v) == <<v>>
IsDefined(o) == o # << >>

\* ------------------------------------------------------- configuration
\* config[c] is the FailOpenConfig of client c, fixed at construction.  The
\* clients share the table and its key schema (partition key and sort key)
\* and differ in the rest; heartbeatPeriodMs = 0 is "no heartbeat".
VARIABLE config

\* Two live clients, and in some initial states the record of a third that
\* died holding the lock (StaleItems).
Clients == {1, 2}

HolderConfig(retryCount) ==
    [leaseDuration |-> 2, leaseUnit |-> "milliseconds", heartbeatPeriodMs |-> 1,
     trustLocalTime |-> TRUE, retryCount |-> retryCount, sortKey |-> TRUE]

Configs ==
    { [c \in Clients |->
         IF c = 1 THEN HolderConfig(Undefined)
         ELSE [leaseDuration |-> 3, leaseUnit |-> "milliseconds", heartbeatPeriodMs |-> 0,
               trustLocalTime |-> FALSE, retryCount |-> Some(0), sortKey |-> TRUE]],
      [c \in Clients |->
         IF c = 1 THEN HolderConfig(Some(0))
         ELSE [leaseDuration |-> 2, leaseUnit |-> "milliseconds", heartbeatPeriodMs |-> 0,
               trustLocalTime |-> TRUE, retryCount |-> Undefined, sortKey |-> TRUE]],
      [c \in Clients |->
         IF c = 1 THEN [HolderConfig(Some(0)) EXCEPT !.trustLocalTime = FALSE]
         ELSE [leaseDuration |-> 2, leaseUnit |-> "milliseconds", heartbeatPeriodMs |-> 0,
               trustLocalTime |-> TRUE, retryCount |-> Some(0), sortKey |-> TRUE]] }

\* Mutant: `config.retryCount || 1`, which takes a configured 0 for unset.
retryCountOrDefault(c) ==
    IF IsDefined(config[c].retryCount) /\ config[c].retryCount[1] # 0
    THEN config[c].retryCount[1] ELSE DefaultRetryCount
\* FailOpen.constructor: this.retryCount = this.config.retryCount ?? 1
retryCountOf(c) ==
    IF IsDefined(config[c].retryCount) THEN config[c].retryCount[1] ELSE DefaultRetryCount

getMsForLease(time, unit) ==
    CASE unit = "milliseconds" -> time
      [] unit = "seconds" -> time * 1000
      [] unit = "minutes" -> time * 1000 * 60
      [] unit = "hours" -> time * 1000 * 60 * 60
      [] unit = "days" -> time * 1000 * 60 * 60 * 24

\* `x || 10000` on a number: 0 (and NaN) are falsy.
OrDefault(x) == IF x = 0 THEN DefaultLeaseDuration ELSE x

\* The leaseDuration attribute every put of client c writes.
itemLeaseDuration(c) ==
    getMsForLease(OrDefault(config[c].leaseDuration), config[c].leaseUnit)

\* ------------------------------------------------------------- tokens
\* crypto.randomUUID(): the k-th value drawn by client c, unique over all
\* clients and draws.
NoToken == <<0, 0>>
randomUUID(c, k) == <<c, k>>

\* ------------------------------------------------------------- records
\* The stored lock record; exists = FALSE is "no item under the key".
NoItem ==
    [exists |-> FALSE, recordVersionNumber |-> NoToken, leaseDuration |-> 0,
     lockAcquiredTimeUnixMs |-> Undefined, ownerName |-> 0]

\* The Item of the PutCommand built by acquireNewLock, acquireExistingLock
\* and refreshLock: lockAcquiredTimeUnixMs only under trustLocalTime.
putItem(c, rvn, t) ==
    [exists |-> TRUE, recordVersionNumber |-> rvn,
     leaseDuration |-> itemLeaseDuration(c),
     lockAcquiredTimeUnixMs |-> IF config[c].trustLocalTime THEN Some(t) ELSE Undefined,
     ownerName |-> c]

\* The records a client that died while holding the lock can have left
\* behind: written with or without trustLocalTime, never renewed or deleted.
StaleToken == <<0, 1>>
StaleItems ==
    { [exists |-> TRUE, recordVersionNumber |-> StaleToken, leaseDuration |-> 2,
       lockAcquiredTimeUnixMs |-> t, ownerName |-> 0] : t \in {Undefined, Some(0)} }

\* ConditionExpressions, evaluated by the store on the stored record.
attributeNotExists(item) == ~item.exists
attributeExists(item) == item.exists
\* Mutant: the insert sent without its ConditionExpression.
condNewLockMissing(item) == TRUE
\* acquireNewLock: attribute_not_exists(pk) and attribute_not_exists(sk)
condNewLock(item) == attributeNotExists(item)
\* Mutant: the overwrite conditioned on the owner-independent half only
\* ("absent, or present"), without the token comparison.
condExistingLockNoToken(item, rvn) == attributeNotExists(item) \/ attributeExists(item)
\* Mutant: the overwrite that requires the record to exist.
condExistingLockMustExist(item, rvn) == item.exists /\ item.recordVersionNumber = rvn
\* acquireExistingLock: not-exists or (recordVersionNumber = :recordVersionNumber)
condExistingLock(item, rvn) ==
    attributeNotExists(item) \/ (item.exists /\ item.recordVersionNumber = rvn)
\* Mutant: renewal and delete conditioned on existence only.
condOwnLockNoToken(item, rvn) == attributeExists(item)
\* release, refreshLock: exists and recordVersionNumber = :recordVersionNumber
condOwnLock(item, rvn) ==
    attributeExists(item) /\ item.recordVersionNumber = rvn

Max(a, b) == IF a >= b THEN a ELSE b

\* Mutant: with trustLocalTime off, wait the client's own lease duration.
waitTimeoutOwnLease(c, item, localTimeUnixMs) ==
    IF config[c].trustLocalTime
    THEN IF IsDefined(item.lockAcquiredTimeUnixMs)
         THEN Some(Max(0, OrDefault(item.leaseDuration)
                             - (localTimeUnixMs - item.lockAcquiredTimeUnixMs[1])))
         ELSE Undefined
    ELSE Some(itemLeaseDuration(c))
\* Mutant: the full stored lease duration whatever trustLocalTime says.
waitTimeoutFullLease(c, item, localTimeUnixMs) == Some(OrDefault(item.leaseDuration))
\* checkForExistingLock, lines 163-171: the delay handed to setTimeout.
\* Undefined stands for NaN (parseInt of a missing lockAcquiredTimeUnixMs;
\* Math.max(0, NaN) is NaN).
waitTimeout(c, item, localTimeUnixMs) ==
    LET leaseDurationMs == OrDefault(item.leaseDuration)
    IN  IF config[c].trustLocalTime
        THEN IF IsDefined(item.lockAcquiredTimeUnixMs)
             THEN Some(Max(0, leaseDurationMs - (localTimeUnixMs - item.lockAcquiredTimeUnixMs[1])))
             ELSE Undefined
        ELSE Some(leaseDurationMs)

\* setTimeout(f, delay): the earliest time f may run; a NaN delay does not
\* delay at all.  (Delays stay below the 2^31 - 1 ms a timer can hold.)
timerDeadline(t, delay) == IF IsDefined(delay) THEN t + delay[1] ELSE t


\* --------------------------------------------------------------- state
VARIABLES
    now,     \* the clock, in milliseconds (Date.getTime() of every client)
    table,   \* the stored lock record
    uuids,   \* uuids[c]: how many UUIDs client c has drawn
    acq,     \* acq[c]: client c's acquireLock call (dataBag, request in flight, timer)
    lock,    \* lock[c]: the Lock that call produced
    hist     \* history of the calls, the Locks and the store (observation only)

vars == <<config, now, table, uuids, acq, lock, hist>>

\* acq[c].pc: "idle" (not called), "get" (GetCommand in flight), "wait"
\* (setTimeout pending), "put" (PutCommand in flight), "locked" (callback got
\* a Lock), "error" (callback got an error).  called counts the calls of the
\* caller's callback.
initAcq ==
    [pc |-> "idle", retryCount |-> 0, recordVersionNumber |-> NoToken,
     item |-> NoItem, kind |-> "none", params |-> NoItem, timerAt |-> 0,
     error |-> "none", called |-> 0]

\* lock[c]: the fields of class Lock.  timerSet/timerAt: a pending
\* heartbeatTimeout.  refresh, del: the PutCommand of refreshLock and the
\* DeleteCommand of release: "none", "sent", and for del "done" (answered).
\* refreshCallback is 0 (undefined) or the number of the release call it
\* will re-run.  deletes counts the DeleteCommands sent (observation only).
initLock ==
    [constructed |-> FALSE, recordVersionNumber |-> NoToken, released |-> FALSE,
     refreshing |-> FALSE, refreshCallback |-> 0, timerSet |-> FALSE, timerAt |-> 0,
     refresh |-> "none", newGuid |-> NoToken, refreshCond |-> NoToken,
     refreshItem |-> NoItem, del |-> "none", delCond |-> NoToken, deletes |-> 0]

\* hist.of[c], of the acquireLock call: reads, waits, writes count the
\* GetCommands, timers and PutCommands it issued; readAt is when its pending
\* timer was set, timeout the delay it was set with, waited how long after
\* readAt the PutCommand in flight was sent; beaten, delSince and race record a race it lost (see
\* beatenBy); id is <<sortID>> once acquireLock has been called.  Of the
\* Lock: refreshes, releaseCalls, releaseCallbacks and errorEvents count what
\* their names say; tokens lists the tokens this client wrote to the record,
\* the acquisition's and then each successful renewal's; delAnswer is the
\* store's answer to the DeleteCommand and releaseError what the release
\* callback was then given; sentAt is when the PutCommand in flight was sent.
\* hist.stamp is when the write that produced the stored record was sent.
initHist ==
    [reads |-> 0, waits |-> 0, writes |-> 0, readAt |-> 0, timeout |-> Undefined,
     waited |-> Undefined,
     beaten |-> "none", delSince |-> FALSE,
     race |-> [kind |-> "none", del |-> FALSE, result |-> "none"],
     refreshes |-> 0, releaseCalls |-> 0, releaseCallbacks |-> 0,
     errorEvents |-> 0, id |-> <<>>, tokens |-> <<>>,
     delAnswer |-> "none", releaseError |-> "none", sentAt |-> 0]

Init ==
    /\ config \in Configs
    /\ now = 0
    /\ table \in {NoItem} \cup StaleItems
    /\ uuids = [c \in Clients |-> 0]
    /\ acq = [c \in Clients |-> initAcq]
    /\ lock = [c \in Clients |-> initLock]
    /\ hist = [of |-> [c \in Clients |-> initHist], faults |-> 0, stamp |-> 0]

\* The store may answer a request with an error other than
\* ConditionalCheckFailedException (throttling, permissions, network); the
\* request then has no effect.
MayFault(fault) == fault => hist.faults < MaxFaults
countFault(fault) == IF fault THEN hist.faults + 1 ELSE hist.faults

\* ------------------------------------------------------------ FailOpen
\* The callback has been called: the call's dataBag, params and the record
\* it read are no longer referenced.
callback(a, error) ==
    [initAcq EXCEPT !.pc = IF error = "none" THEN "locked" ELSE "error",
                    !.error = error,
                    !.called = a.called + 1,
                    !.retryCount = a.retryCount,
                    !.recordVersionNumber = a.recordVersionNumber]

\* checkForExistingLock, lines 145-155: send the GetCommand.
checkForExistingLock(a) ==
    [a EXCEPT !.pc = "get", !.item = NoItem, !.kind = "none", !.params = NoItem,
              !.timerAt = 0]

histRead(h) == [h EXCEPT !.reads = @ + 1, !.beaten = "none", !.delSince = FALSE]

\* Mutant: acquireLock without the check of line 128.
sortKeyNeverMissing(c, sortID) == FALSE
\* acquireLock line 128: the configuration names a sort key and the id does
\* not carry a value for it.
missingSortKey(c, sortID) == config[c].sortKey /\ ~IsDefined(sortID)

\* acquireLock(id, callback); sortID is id[sortKey], undefined when the id
\* does not carry it.
AcquireLock(c, sortID) ==
    /\ acq[c].pc = "idle"
    /\ IF missingSortKey(c, sortID)
       THEN /\ acq' = [acq EXCEPT ![c] = callback(@, "validation")]
            /\ hist' = [hist EXCEPT !.of[c].id = <<sortID>>]
            /\ UNCHANGED uuids
       ELSE /\ uuids' = [uuids EXCEPT ![c] = @ + 1]
            /\ acq' = [acq EXCEPT ![c] = checkForExistingLock(
                          [@ EXCEPT !.retryCount = retryCountOf(c),
                                    !.recordVersionNumber = randomUUID(c, uuids[c] + 1)])]
            /\ hist' = [hist EXCEPT !.of[c] = histRead([@ EXCEPT !.id = <<sortID>>])]
    /\ UNCHANGED <<config, now, table, lock>>

\* acquireNewLock, lines 176-196: build the insert-if-absent and send it.
acquireNewLock(c, a, t) ==
    [a EXCEPT !.pc = "put", !.kind = "new",
              !.params = putItem(c, a.recordVersionNumber, t)]

\* The callback of the GetCommand, lines 155-173, on the store's answer.
getCompleted(c, a, item, fault, t) ==
    IF fault THEN callback(a, "storage")
    ELSE IF ~item.exists THEN acquireNewLock(c, [a EXCEPT !.item = item], t)
    ELSE [a EXCEPT !.pc = "wait", !.item = item,
                   !.timerAt = timerDeadline(t, waitTimeout(c, item, t))]

\* The GetCommand completes: the store reads the record (ConsistentRead) and
\* the callback runs.
GetCompleted(c, fault) ==
    /\ acq[c].pc = "get"
    /\ MayFault(fault)
    /\ acq' = [acq EXCEPT ![c] = getCompleted(c, @, table, fault, now)]
    /\ hist' = [hist EXCEPT
                  !.faults = countFault(fault),
                  !.of[c] = IF acq'[c].pc = "put"
                            THEN [@ EXCEPT !.writes = @ + 1, !.sentAt = now]
                            ELSE IF acq'[c].pc = "wait"
                            THEN [@ EXCEPT !.waits = @ + 1, !.readAt = now,
                                           !.timeout = waitTimeout(c, table, now)]
                            ELSE @]
    /\ UNCHANGED <<config, now, table, uuids, lock>>

\* acquireExistingLock, lines 198-227: build the conditional overwrite and
\* send it; :recordVersionNumber is the token of the record read, a.item.
acquireExistingLock(c, a, t) ==
    [a EXCEPT !.pc = "put", !.kind = "existing",
              !.params = putItem(c, a.recordVersionNumber, t)]

\* The timer set at line 172 fires.
WaitTimeout(c) ==
    /\ acq[c].pc = "wait"
    /\ now >= acq[c].timerAt
    /\ acq' = [acq EXCEPT ![c] = acquireExistingLock(c, @, now)]
    /\ hist' = [hist EXCEPT !.of[c].writes = @ + 1,
                            !.of[c].waited = Some(now - hist.of[c].readAt),
                            !.of[c].timeout = Undefined,
                            !.of[c].sentAt = now]
    /\ UNCHANGED <<config, now, table, uuids, lock>>

\* The ConditionExpression of the acquisition's PutCommand.
putCondition(a, item) ==
    IF a.kind = "new" THEN condNewLock(item)
    ELSE condExistingLock(item, a.item.recordVersionNumber)

\* The store's answer to the acquisition's PutCommand.
putAnswer(a, item, fault) ==
    IF fault THEN "err" ELSE IF putCondition(a, item) THEN "ok" ELSE "ccf"

\* Mutant: the constructor sets the heartbeat timer without the
\* `if (this.config.heartbeatPeriodMs)` of line 280.
newLockAlwaysTimer(c, a, t) ==
    [initLock EXCEPT !.constructed = TRUE,
                     !.recordVersionNumber = a.recordVersionNumber,
                     !.timerSet = TRUE,
                     !.timerAt = t + config[c].heartbeatPeriodMs]
\* new Lock(config), lines 276-284.
newLock(c, a, t) ==
    [initLock EXCEPT !.constructed = TRUE,
                     !.recordVersionNumber = a.recordVersionNumber,
                     !.timerSet = (config[c].heartbeatPeriodMs # 0),
                     !.timerAt = IF config[c].heartbeatPeriodMs # 0
                                 THEN t + config[c].heartbeatPeriodMs ELSE 0]

\* Mutant: `dataBag.retryCount >= 0`, one retry too many.
tryAcquireLockOneMore(a, answer) ==
    IF answer = "ccf"
    THEN IF a.retryCount >= 0
         THEN checkForExistingLock([a EXCEPT !.retryCount = @ - 1])
         ELSE callback(a, "FailedToAcquireLock")
    ELSE IF answer = "err"
    THEN callback(a, "storage")
    ELSE callback(a, "none")
\* Mutant: every error of the PutCommand is retried, not only
\* ConditionalCheckFailedException.
tryAcquireLockRetriesAnyError(a, answer) ==
    IF answer # "ok"
    THEN IF a.retryCount > 0
         THEN checkForExistingLock([a EXCEPT !.retryCount = @ - 1])
         ELSE callback(a, IF answer = "ccf" THEN "FailedToAcquireLock" ELSE "storage")
    ELSE callback(a, "none")
\* Mutant: with the retries used up, tryAcquireLock returns without
\* calling the callback.
tryAcquireLockGivesUpSilently(a, answer) ==
    IF answer = "ccf"
    THEN IF a.retryCount > 0
         THEN checkForExistingLock([a EXCEPT !.retryCount = @ - 1])
         ELSE [a EXCEPT !.pc = "returned"]
    ELSE IF answer = "err"
    THEN callback(a, "storage")
    ELSE callback(a, "none")
\* The callback of the PutCommand, tryAcquireLock lines 234-264.
tryAcquireLock(a, answer) ==
    IF answer = "ccf"
    THEN IF a.retryCount > 0
         THEN checkForExistingLock([a EXCEPT !.retryCount = @ - 1])
         ELSE callback(a, "FailedToAcquireLock")
    ELSE IF answer = "err"
    THEN callback(a, "storage")
    ELSE callback(a, "none")

\* Has client b read the record, on its first attempt or a later one, with
\* the conditional write of that attempt still to be evaluated?
Pending(b) == acq[b].pc \in {"wait", "put"}

\* History: client a's write succeeds on the record `item`; which pending
\* attempts does it beat?  A first insert beats the first attempts that also
\* read "absent"; an overwrite of the record with token T beats the attempts
\* that also read token T.
beatenBy(a, b, item) ==
    IF b = a \/ ~Pending(b) THEN hist.of[b].beaten
    ELSE IF /\ acq[a].kind = "new" /\ hist.of[a].reads = 1
            /\ acq[b].kind = "new" /\ hist.of[b].reads = 1 /\ acq[b].pc = "put"
         THEN "new"
    ELSE IF /\ acq[a].kind = "existing" /\ item.exists /\ acq[b].item.exists
            /\ acq[b].item.recordVersionNumber = item.recordVersionNumber
         THEN "existing"
    ELSE hist.of[b].beaten

histPut(h, answer) ==
    IF h.beaten = "none" THEN [h EXCEPT !.waited = Undefined, !.readAt = 0, !.sentAt = 0]
    ELSE [h EXCEPT !.waited = Undefined, !.readAt = 0, !.sentAt = 0,
                   !.race = [kind |-> h.beaten, del |-> h.delSince, result |-> answer]]

\* The PutCommand of tryAcquireLock completes: the store evaluates it
\* atomically and the callback runs.
PutCompleted(c, fault) ==
    /\ acq[c].pc = "put"
    /\ MayFault(fault)
    /\ LET answer == putAnswer(acq[c], table, fault)
       IN  /\ table' = IF answer = "ok" THEN acq[c].params ELSE table
           /\ acq' = [acq EXCEPT ![c] = tryAcquireLock(@, answer)]
           /\ lock' = IF answer = "ok"
                      THEN [lock EXCEPT ![c] = newLock(c, acq[c], now)]
                      ELSE lock
           /\ hist' = [hist EXCEPT
                  !.faults = countFault(fault),
                  !.stamp = IF answer = "ok" THEN hist.of[c].sentAt ELSE @,
                  !.of = [b \in Clients |->
                            IF b = c
                            THEN IF acq'[c].pc = "get"
                                 THEN histRead(histPut(hist.of[c], answer))
                                 ELSE IF answer = "ok"
                                 THEN [histPut(hist.of[c], answer) EXCEPT
                                          !.tokens = <<table'.recordVersionNumber>>]
                                 ELSE histPut(hist.of[c], answer)
                            ELSE IF answer = "ok"
                            THEN [hist.of[b] EXCEPT !.beaten = beatenBy(c, b, table)]
                            ELSE hist.of[b]]]
    /\ UNCHANGED <<config, now, uuids>>

\* ---------------------------------------------------------------- Lock
\* Mutant: release without the `if (this.released) return` of line 287.
releaseUnguarded(l, k) ==
    IF l.refreshing THEN [l EXCEPT !.refreshCallback = k]
    ELSE [l EXCEPT !.released = TRUE, !.timerSet = FALSE, !.timerAt = 0,
                   !.del = "sent", !.delCond = l.recordVersionNumber,
                   !.deletes = @ + 1]
\* Mutant: `this.released = true` moved into `if (this.heartbeatTimeout)`:
\* the Lock is marked released only when a heartbeat timer was pending.
releaseFlagInTimerBranch(l, k) ==
    IF l.released THEN l
    ELSE IF l.refreshing THEN [l EXCEPT !.refreshCallback = k]
    ELSE [l EXCEPT !.released = l.timerSet, !.timerSet = FALSE, !.timerAt = 0,
                   !.del = "sent", !.delCond = l.recordVersionNumber,
                   !.deletes = @ + 1]
\* Mutant: release without the `if (this.refreshing)` deferral of line 291.
releaseNotDeferred(l, k) ==
    IF l.released THEN l
    ELSE [l EXCEPT !.released = TRUE, !.timerSet = FALSE, !.timerAt = 0,
                   !.del = "sent", !.delCond = l.recordVersionNumber,
                   !.deletes = @ + 1]
\* Mutant: a release call made while one is deferred keeps the continuation
\* already retained.
releaseKeepsFirstDeferred(l, k) ==
    IF l.released THEN l
    ELSE IF l.refreshing
    THEN [l EXCEPT !.refreshCallback = IF @ # 0 THEN @ ELSE k]
    ELSE [l EXCEPT !.released = TRUE, !.timerSet = FALSE, !.timerAt = 0,
                   !.del = "sent", !.delCond = l.recordVersionNumber,
                   !.deletes = @ + 1]
\* Lock.release(callback), lines 286-326, on the Lock's fields; k is the
\* number of the release call whose callback this is.
release(l, k) ==
    IF l.released THEN l
    ELSE IF l.refreshing THEN [l EXCEPT !.refreshCallback = k]
    ELSE [l EXCEPT !.released = TRUE, !.timerSet = FALSE, !.timerAt = 0,
                   !.del = "sent", !.delCond = l.recordVersionNumber,
                   !.deletes = @ + 1]

\* The caller calls lock.release(callback).
Release(c) ==
    /\ lock[c].constructed
    /\ hist.of[c].releaseCalls < MaxReleaseCalls
    /\ lock' = [lock EXCEPT ![c] = release(@, hist.of[c].releaseCalls + 1)]
    /\ hist' = [hist EXCEPT !.of[c].releaseCalls = @ + 1]
    /\ UNCHANGED <<config, now, table, uuids, acq>>

\* Mutant: refreshLock writes the Lock's current token again instead of
\* newGuid.
refreshLockSameToken(c, l, newGuid, t) ==
    [l EXCEPT !.timerSet = FALSE, !.timerAt = 0, !.refreshing = TRUE, !.refresh = "sent",
              !.newGuid = l.recordVersionNumber, !.refreshCond = l.recordVersionNumber,
              !.refreshItem = putItem(c, l.recordVersionNumber, t)]
\* refreshLock, lines 328-354, up to the send.
refreshLock(c, l, newGuid, t) ==
    [l EXCEPT !.timerSet = FALSE, !.timerAt = 0, !.refreshing = TRUE, !.refresh = "sent",
              !.newGuid = newGuid, !.refreshCond = l.recordVersionNumber,
              !.refreshItem = putItem(c, newGuid, t)]

\* The heartbeat timer fires.
RefreshLock(c) ==
    /\ lock[c].timerSet
    /\ now >= lock[c].timerAt
    /\ hist.of[c].refreshes < MaxRenewals
    /\ uuids' = [uuids EXCEPT ![c] = @ + 1]
    /\ lock' = [lock EXCEPT ![c] = refreshLock(c, @, randomUUID(c, uuids[c] + 1), now)]
    /\ hist' = [hist EXCEPT !.of[c].refreshes = @ + 1, !.of[c].sentAt = now]
    /\ UNCHANGED <<config, now, table, acq>>

\* The store's answer to a PutCommand or DeleteCommand of a Lock.
ownAnswer(item, rvn, fault) ==
    IF fault THEN "err" ELSE IF condOwnLock(item, rvn) THEN "ok" ELSE "ccf"

\* Mutant: the callback of refreshLock's PutCommand without lines 356-358:
\* the deferred release is dropped.
refreshCompletedDropsRelease(c, l, answer, t) ==
    LET l1 == [l EXCEPT !.refreshing = FALSE, !.refresh = "none", !.newGuid = NoToken,
                        !.refreshCond = NoToken, !.refreshItem = NoItem]
        l3 == [l1 EXCEPT !.refreshCallback = 0]
        l4 == [l3 EXCEPT !.recordVersionNumber = l.newGuid]
    IN  IF answer # "ok" THEN l3
        ELSE IF ~l4.released
        THEN [l4 EXCEPT !.timerSet = TRUE, !.timerAt = t + config[c].heartbeatPeriodMs]
        ELSE l4
\* Mutant: the callback of refreshLock's PutCommand without the
\* `if (!this.released)` of line 365.
refreshCompletedAlwaysReschedules(c, l, answer, t) ==
    LET l1 == [l EXCEPT !.refreshing = FALSE, !.refresh = "none", !.newGuid = NoToken,
                        !.refreshCond = NoToken, !.refreshItem = NoItem]
        l2 == IF l1.refreshCallback # 0 THEN release(l1, l1.refreshCallback) ELSE l1
        l3 == [l2 EXCEPT !.refreshCallback = 0]
        l4 == [l3 EXCEPT !.recordVersionNumber = l.newGuid]
    IN  IF answer # "ok" THEN l3
        ELSE [l4 EXCEPT !.timerSet = TRUE, !.timerAt = t + config[c].heartbeatPeriodMs]
\* Mutant: the callback of refreshLock's PutCommand sets the next timer
\* after a failed renewal too (no `return` at line 361).
refreshCompletedRetries(c, l, answer, t) ==
    LET l1 == [l EXCEPT !.refreshing = FALSE, !.refresh = "none", !.newGuid = NoToken,
                        !.refreshCond = NoToken, !.refreshItem = NoItem]
        l2 == IF l1.refreshCallback # 0 THEN release(l1, l1.refreshCallback) ELSE l1
        l3 == [l2 EXCEPT !.refreshCallback = 0]
        l4 == IF answer # "ok" THEN l3 ELSE [l3 EXCEPT !.recordVersionNumber = l.newGuid]
    IN  IF ~l4.released
        THEN [l4 EXCEPT !.timerSet = TRUE, !.timerAt = t + config[c].heartbeatPeriodMs]
        ELSE l4
\* Mutant: the callback of refreshLock's PutCommand without the
\* `this.recordVersionNumber = newGuid` of line 363.
refreshCompletedKeepsToken(c, l, answer, t) ==
    LET l1 == [l EXCEPT !.refreshing = FALSE, !.refresh = "none", !.newGuid = NoToken,
                        !.refreshCond = NoToken, !.refreshItem = NoItem]
        l2 == IF l1.refreshCallback # 0 THEN release(l1, l1.refreshCallback) ELSE l1
        l3 == [l2 EXCEPT !.refreshCallback = 0]
    IN  IF answer # "ok" THEN l3
        ELSE IF ~l3.released
        THEN [l3 EXCEPT !.timerSet = TRUE, !.timerAt = t + config[c].heartbeatPeriodMs]
        ELSE l3
\* The callback of refreshLock's PutCommand, lines 354-367.
refreshCompleted(c, l, answer, t) ==
    LET l1 == [l EXCEPT !.refreshing = FALSE, !.refresh = "none", !.newGuid = NoToken,
                        !.refreshCond = NoToken, !.refreshItem = NoItem]
        l2 == IF l1.refreshCallback # 0 THEN release(l1, l1.refreshCallback) ELSE l1
        l3 == [l2 EXCEPT !.refreshCallback = 0]
        l4 == [l3 EXCEPT !.recordVersionNumber = l.newGuid]
    IN  IF answer # "ok" THEN l3
        ELSE IF ~l4.released
        THEN [l4 EXCEPT !.timerSet = TRUE, !.timerAt = t + config[c].heartbeatPeriodMs]
        ELSE l4

\* The PutCommand of refreshLock completes.
RefreshCompleted(c, fault) ==
    /\ lock[c].refresh = "sent"
    /\ MayFault(fault)
    /\ LET answer == ownAnswer(table, lock[c].refreshCond, fault)
       IN  /\ table' = IF answer = "ok" THEN lock[c].refreshItem ELSE table
           /\ lock' = [lock EXCEPT ![c] = refreshCompleted(c, @, answer, now)]
           /\ hist' = [hist EXCEPT
                  !.faults = countFault(fault),
                  !.stamp = IF answer = "ok" THEN hist.of[c].sentAt ELSE @,
                  !.of[c].sentAt = 0,
                  !.of[c].errorEvents = IF answer # "ok" THEN @ + 1 ELSE @,
                  !.of[c].tokens = IF answer = "ok"
                                   THEN Append(@, table'.recordVersionNumber) ELSE @]
    /\ UNCHANGED <<config, now, uuids, acq>>

\* Mutant: the DeleteCommand's callback hands the store's error on.
releaseCallbackPassesError(answer) == IF answer = "ok" THEN "none" ELSE answer
\* What the DeleteCommand's callback gives the caller's callback, line 320:
\* callback(undefined), whatever the store answered.
releaseCallbackError(answer) == "none"

\* History: a delete takes the record away while b's attempt is beaten.
delSinceBy(b) ==
    IF Pending(b) /\ hist.of[b].beaten # "none" THEN TRUE ELSE hist.of[b].delSince

\* The DeleteCommand of release completes, lines 316-321: the store
\* evaluates it atomically and the callback runs callback(undefined).
DeleteCompleted(c, fault) ==
    /\ lock[c].del = "sent"
    /\ MayFault(fault)
    /\ LET answer == ownAnswer(table, lock[c].delCond, fault)
       IN  /\ table' = IF answer = "ok" THEN NoItem ELSE table
           /\ lock' = [lock EXCEPT ![c].del = "done", ![c].delCond = NoToken]
           /\ hist' = [hist EXCEPT
                  !.faults = countFault(fault),
                  !.stamp = IF answer = "ok" THEN 0 ELSE @,
                  !.of = [b \in Clients |->
                            IF b = c
                            THEN [hist.of[c] EXCEPT
                                     !.releaseCallbacks = @ + 1,
                                     !.delAnswer = answer,
                                     !.releaseError = releaseCallbackError(answer)]
                            ELSE IF answer = "ok"
                            THEN [hist.of[b] EXCEPT !.delSince = delSinceBy(b)]
                            ELSE hist.of[b]]]
    /\ UNCHANGED <<config, now, uuids, acq>>

\* ---------------------------------------------------------------- time
\* A timer is pending that will still do something when it fires.
TimerPending ==
    \E c \in Clients :
        IF acq[c].pc = "wait" THEN now < acq[c].timerAt
        ELSE /\ lock[c].timerSet /\ now < lock[c].timerAt
             /\ hist.of[c].refreshes < MaxRenewals

\* Time passes: up to MaxTime, and beyond it while a pending timer has not
\* reached its deadline, so that every timer set does fire.
Tick ==
    /\ IF now < MaxTime THEN TRUE ELSE TimerPending
    /\ now' = now + 1
    /\ UNCHANGED <<config, table, uuids, acq, lock, hist>>

\* The values an id can carry under the sort key: none, or one.
SortIDs == {Undefined, Some(1)}

Next ==
    \/ Tick
    \/ \E c \in Clients :
        \/ \E sortID \in SortIDs : AcquireLock(c, sortID)
        \/ \E fault \in BOOLEAN : GetCompleted(c, fault)
        \/ WaitTimeout(c)
        \/ \E fault \in BOOLEAN : PutCompleted(c, fault)
        \/ Release(c)
        \/ RefreshLock(c)
        \/ \E fault \in BOOLEAN : RefreshCompleted(c, fault)
        \/ \E fault \in BOOLEAN : DeleteCompleted(c, fault)

Spec == Init /\ [][Next]_vars

\* The store answers every request of an acquireLock call, time passes, and
\* a wait timer whose deadline has come fires.
FairSpec ==
    /\ Spec
    /\ WF_vars(Tick)
    /\ \A c \in Clients :
          /\ WF_vars(\E fault \in BOOLEAN : GetCompleted(c, fault))
          /\ WF_vars(WaitTimeout(c))
          /\ WF_vars(\E fault \in BOOLEAN : PutCompleted(c, fault))

\* ============================================================== claims
\* The acquisition's PutCommand of client c completes in this step.
PutDone(c) == acq[c].pc = "put" /\ acq'[c].pc # "put"
\* ... and the store evaluated it (answered "ok" or "ccf", no other error).
PutEvaluated(c) == PutDone(c) /\ acq'[c].error # "storage"
\* What that step did, seen from the call.
Granted(c) == acq'[c].pc = "locked" /\ lock'[c].constructed
PreconditionFailed(c) ==
    \/ acq'[c].pc = "get"
    \/ acq'[c].pc = "error" /\ acq'[c].error = "FailedToAcquireLock"

\* C1 (as stated): of two concurrent first insert-if-absent writes on an
\* absent record, the one evaluated after the winner's is never granted the
\* Lock.  Violated: the winner may release, and its delete may be applied,
\* before the other insert is evaluated.
C1_LoserNeverGranted ==
    \A b \in Clients :
        hist.of[b].race.kind = "new" => hist.of[b].race.result # "ok"

\* C1 (amended): of two concurrent first insert-if-absent writes, once one
\* has succeeded the other observes a precondition failure and is not
\* granted a Lock, unless the winner's record was deleted (released) before
\* the other write was evaluated.
C1_OneInsertWins ==
    \A b \in Clients :
        LET r == hist.of[b].race
        IN  (r.kind = "new" /\ ~r.del) =>
                /\ r.result \in {"ccf", "err"}
                /\ (hist.faults = 0 => r.result = "ccf")

C1_Witness ==
    \E b \in Clients :
        /\ hist.of[b].race = [kind |-> "new", del |-> FALSE, result |-> "ccf"]
        /\ hist.of[b].writes = 1
        /\ \E a \in Clients \ {b} : lock[a].constructed /\ hist.of[a].writes = 1

\* C2: the conditional overwrite of an acquirer that read token T succeeds
\* if and only if, when the store evaluates it, the record is absent or its
\* token is still T; otherwise the call sees a precondition failure and the
\* stored record is unchanged.
C2_OverwriteIffAbsentOrSameToken ==
    [][\A c \in Clients :
         (PutEvaluated(c) /\ acq[c].kind = "existing") =>
            LET T == acq[c].item.recordVersionNumber
                holds == ~table.exists \/ table.recordVersionNumber = T
            IN  /\ Granted(c) <=> holds
                /\ holds => table' = acq[c].params
                /\ ~holds => (PreconditionFailed(c) /\ table' = table)]_vars

\* An overwrite failed because the incumbent renewed during the wait: the
\* acquirer is back at its second read, the record carries the holder's
\* second token.
C2_Witness ==
    \E c \in Clients :
        /\ acq[c].pc = "get"
        /\ hist.of[c].reads = 2 /\ hist.of[c].waits = 1 /\ hist.of[c].writes = 1
        /\ table.exists /\ table.ownerName # c /\ table.recordVersionNumber[2] = 2

\* C3: when two acquirers read the same record (token T) and one's
\* overwrite of that record has succeeded, the other's overwrite fails with
\* a precondition failure, unless the record was deleted (released) before
\* the second write was evaluated.
C3_OneOverwriteWins ==
    \A b \in Clients :
        LET r == hist.of[b].race
        IN  (r.kind = "existing" /\ ~r.del) =>
                /\ r.result \in {"ccf", "err"}
                /\ (hist.faults = 0 => r.result = "ccf")

C3_Witness ==
    \E b \in Clients :
        /\ hist.of[b].race = [kind |-> "existing", del |-> FALSE, result |-> "ccf"]
        /\ \E a \in Clients \ {b} : lock[a].constructed

\* C4: the stored record changes only in the completion of a conditional
\* write whose precondition held on the record as stored: an insert on an
\* absent record, an overwrite on an absent record or on the token the
\* acquirer read, a renewal or a delete on the Lock's current token.  A
\* Lock whose token is not the stored one changes nothing.
C4_OnlyConditionalChanges ==
    [][/\ table' # table =>
            \E c \in Clients :
                \/ /\ PutDone(c) /\ Granted(c) /\ acq[c].kind = "new"
                   /\ ~table.exists
                   /\ table' = acq[c].params
                \/ /\ PutDone(c) /\ Granted(c) /\ acq[c].kind = "existing"
                   /\ ~table.exists \/ table.recordVersionNumber = acq[c].item.recordVersionNumber
                   /\ table' = acq[c].params
                \/ /\ lock[c].refresh = "sent" /\ lock'[c].refresh = "none"
                   /\ table.exists /\ table.recordVersionNumber = lock[c].recordVersionNumber
                   /\ table' = lock[c].refreshItem
                \/ /\ lock[c].del = "sent" /\ lock'[c].del = "done"
                   /\ table.exists /\ table.recordVersionNumber = lock[c].recordVersionNumber
                   /\ table' = NoItem
       /\ \A c \in Clients :
            ( /\ lock[c].constructed
              /\ table.recordVersionNumber # lock[c].recordVersionNumber
              /\ lock'[c] # lock[c] ) => table' = table]_vars

\* A Lock whose record was taken over by the other client tried to renew:
\* the renewal failed and the new owner's record stands.
C4_Witness ==
    \E c \in Clients :
        /\ hist.of[c].errorEvents = 1 /\ hist.faults = 0
        /\ table.exists /\ table.ownerName \notin {0, c}
        /\ table.recordVersionNumber # lock[c].recordVersionNumber

\* C5: one acquireLock call sends at most retryCount + 1 conditional writes
\* (retryCount is 1 when not configured).  On a precondition failure with
\* retries left it takes one retry off the budget and reads the record
\* again; with none left it fails with "FailedToAcquireLock" and produces no
\* Lock.
C5_RetryBudget ==
    /\ [](\A c \in Clients :
            LET budget == IF IsDefined(config[c].retryCount)
                          THEN config[c].retryCount[1] ELSE 1
            IN  /\ hist.of[c].writes <= budget + 1
                /\ acq[c].pc # "idle" => hist.of[c].writes + acq[c].retryCount <= budget + 1)
    /\ [][\A c \in Clients :
            (PutEvaluated(c) /\ ~Granted(c)) =>
                IF acq[c].retryCount > 0
                THEN /\ acq'[c].pc = "get"
                     /\ acq'[c].retryCount = acq[c].retryCount - 1
                     /\ hist'.of[c].reads = hist.of[c].reads + 1
                     /\ acq'[c].item = NoItem
                ELSE /\ acq'[c].pc = "error"
                     /\ acq'[c].error = "FailedToAcquireLock"
                     /\ ~lock'[c].constructed]_vars

\* A call with no configured retryCount gave up after its second write.
C5_Witness ==
    \E c \in Clients :
        /\ ~IsDefined(config[c].retryCount)
        /\ acq[c].error = "FailedToAcquireLock"
        /\ hist.of[c].writes = 2 /\ hist.of[c].reads = 2
        /\ ~lock[c].constructed

\* C6: with retryCount = 0, a call whose overwrite finds the record present
\* under another token than the one it read fails with "FailedToAcquireLock"
\* on that first attempt: one read, one wait, one write, no second read.
C6_NoRetryFailsAtOnce ==
    /\ [](\A c \in Clients :
            config[c].retryCount = Some(0) =>
                /\ hist.of[c].reads <= 1
                /\ hist.of[c].waits <= 1
                /\ hist.of[c].writes <= 1)
    /\ [][\A c \in Clients :
            ( /\ config[c].retryCount = Some(0)
              /\ PutEvaluated(c) /\ acq[c].kind = "existing"
              /\ table.exists
              /\ table.recordVersionNumber # acq[c].item.recordVersionNumber ) =>
                /\ acq'[c].pc = "error" /\ acq'[c].error = "FailedToAcquireLock"
                /\ ~lock'[c].constructed
                /\ hist'.of[c].reads = 1 /\ hist'.of[c].waits = 1
                /\ hist'.of[c].writes = 1]_vars

\* A call with retryCount = 0 failed on a record its holder had renewed.
C6_Witness ==
    \E c \in Clients :
        /\ config[c].retryCount = Some(0)
        /\ acq[c].error = "FailedToAcquireLock"
        /\ hist.of[c].reads = 1 /\ hist.of[c].waits = 1 /\ hist.of[c].writes = 1
        /\ table.exists /\ table.ownerName \notin {0, c}
        /\ hist.of[table.ownerName].refreshes >= 1

\* C7: with trustLocalTime off, the timer before the overwrite is set to
\* the lease duration stored in the record read, whatever the record's age
\* and the client's own lease duration, and the overwrite is sent no
\* earlier than that after the read.
C7_FullStoredLease ==
    \A c \in Clients :
        ~config[c].trustLocalTime =>
            /\ acq[c].pc = "wait" =>
                  /\ hist.of[c].timeout = Some(acq[c].item.leaseDuration)
                  /\ acq[c].timerAt = hist.of[c].readAt + acq[c].item.leaseDuration
            /\ (acq[c].pc = "put" /\ acq[c].kind = "existing") =>
                  hist.of[c].waited[1] >= acq[c].item.leaseDuration

\* The overwrite was sent exactly the stored lease duration after the read
\* of a record that was already a millisecond old and whose lease duration
\* is shorter than the client's own.
C7_Witness ==
    \E c \in Clients :
        /\ ~config[c].trustLocalTime
        /\ acq[c].pc = "put" /\ acq[c].kind = "existing"
        /\ acq[c].item.leaseDuration < itemLeaseDuration(c)
        /\ hist.of[c].waited = Some(acq[c].item.leaseDuration)
        /\ IsDefined(acq[c].item.lockAcquiredTimeUnixMs)
        /\ hist.of[c].readAt > acq[c].item.lockAcquiredTimeUnixMs[1]

\* The wait C8 states, from the stored lease duration D, the stored
\* acquisition time A and the local time of the read.
RemainingLease(D, A, localTime) ==
    IF localTime - A >= D THEN 0 ELSE D - (localTime - A)

\* C8: with trustLocalTime on, a record read with lease duration D and
\* acquisition time A makes the call wait max(0, D - (now - A)): D - T for
\* a record T < D old, nothing for an elapsed lease; the overwrite is sent
\* no earlier than that after the read.
C8_RemainingLease ==
    \A c \in Clients :
        (config[c].trustLocalTime /\ IsDefined(acq[c].item.lockAcquiredTimeUnixMs)) =>
            LET D == acq[c].item.leaseDuration
                A == acq[c].item.lockAcquiredTimeUnixMs[1]
                remaining == RemainingLease(D, A, hist.of[c].readAt)
            IN  /\ acq[c].pc = "wait" =>
                      /\ hist.of[c].timeout = Some(remaining)
                      /\ acq[c].timerAt = hist.of[c].readAt + remaining
                /\ (acq[c].pc = "put" /\ acq[c].kind = "existing") =>
                      hist.of[c].waited[1] >= remaining

\* The overwrite was sent D - T after the read of a record T old, 0 < T < D.
C8_Witness ==
    \E c \in Clients :
        /\ config[c].trustLocalTime
        /\ acq[c].pc = "put" /\ acq[c].kind = "existing"
        /\ IsDefined(acq[c].item.lockAcquiredTimeUnixMs)
        /\ LET T == hist.of[c].readAt - acq[c].item.lockAcquiredTimeUnixMs[1]
           IN  /\ 0 < T /\ T < acq[c].item.leaseDuration
               /\ hist.of[c].waited = Some(acq[c].item.leaseDuration - T)

\* C9: a released Lock stays released, and a release call on a released
\* Lock changes nothing: no DeleteCommand is sent, no callback is called, the
\* Lock's fields and the stored record stay as they are.
C9_ReleasedIsFinal ==
    [][\A c \in Clients :
         lock[c].released =>
            /\ lock'[c].released
            /\ hist'.of[c].releaseCalls # hist.of[c].releaseCalls =>
                  /\ lock'[c] = lock[c]
                  /\ table' = table
                  /\ hist'.of[c].releaseCallbacks = hist.of[c].releaseCallbacks
                  /\ hist'.of[c].errorEvents = hist.of[c].errorEvents]_vars

\* release was called twice, the second time on the released Lock.
C9_Witness ==
    \E c \in Clients :
        /\ lock[c].released /\ lock[c].deletes = 1
        /\ hist.of[c].releaseCalls = 2 /\ hist.of[c].refreshes = 0
        /\ hist.of[c].releaseCallbacks = 1

\* C10: a Lock sends at most one DeleteCommand, whatever the order of
\* release calls, heartbeat timers and renewal completions.
C10_AtMostOneDelete ==
    \A c \in Clients : lock[c].deletes <= 1

\* Two release calls and a renewal: the first call was deferred behind the
\* renewal in flight, and one delete has been sent and answered.
C10_Witness ==
    \E c \in Clients :
        /\ lock[c].deletes = 1 /\ lock[c].del = "done"
        /\ hist.of[c].releaseCalls = 2 /\ hist.of[c].refreshes = 1
        /\ hist.of[c].releaseCallbacks = 1

\* The Lock of client c has no request in flight and no deferred release:
\* nothing is left that could invoke the callback of a release call already
\* made.
Quiescent(c) ==
    /\ lock[c].constructed
    /\ lock[c].refresh = "none" /\ ~lock[c].refreshing /\ lock[c].refreshCallback = 0
    /\ lock[c].del # "sent"

\* C11 (as stated): every call of release has its callback invoked exactly
\* once, with success; so, once the store has answered every request of the
\* Lock and no release is deferred, as many callbacks have been invoked as
\* release calls were made, none with an error.  Violated: a release call on
\* a released Lock returns without invoking its callback, and a release call
\* deferred behind a renewal loses its callback to the next deferred call.
C11_EveryReleaseCalledBack ==
    \A c \in Clients :
        Quiescent(c) =>
            /\ hist.of[c].releaseCallbacks = hist.of[c].releaseCalls
            /\ hist.of[c].releaseError = "none"

\* The DeleteCommand of client c's Lock is answered in this step.
DeleteDone(c) == lock[c].del = "sent" /\ lock'[c].del = "done"
\* ... with a precondition failure: no other error, and the record is absent
\* or carries another token than the delete's.
DeleteConditionFailed(c) ==
    /\ DeleteDone(c)
    /\ hist'.faults = hist.faults
    /\ ~(table.exists /\ table.recordVersionNumber = lock[c].delCond)

\* C12: when the delete of a release is answered, the callback of release is
\* invoked, once and with no error, whatever the store answered (applied,
\* precondition failure, any other failure); on a precondition failure the
\* stored record is left as it was.
C12_ReleaseSuppressesFailure ==
    [][\A c \in Clients :
          /\ DeleteDone(c) =>
                /\ hist'.of[c].releaseCallbacks = hist.of[c].releaseCallbacks + 1
                /\ hist'.of[c].releaseError = "none"
          /\ DeleteConditionFailed(c) =>
                /\ hist'.of[c].delAnswer = "ccf"
                /\ table' = table]_vars

\* A delete failed its precondition on a record another client had taken
\* over, the record is still there, and the callback was given success.
C12_Witness ==
    \E c \in Clients :
        /\ hist.of[c].delAnswer = "ccf"
        /\ hist.of[c].releaseCallbacks = 1
        /\ hist.of[c].releaseError = "none"
        /\ table.exists /\ table.ownerName # c

\* The heartbeat timer of client c's Lock fires in this step: a renewal
\* write is started.
RefreshStarted(c) == hist'.of[c].refreshes = hist.of[c].refreshes + 1
\* A DeleteCommand is sent by client c's Lock in this step.
DeleteSent(c) == lock'[c].deletes = lock[c].deletes + 1

\* C13: a Lock has at most one storage write in flight, renewal put or
\* release delete: a delete is never sent while a renewal is outstanding
\* after the step, a renewal is never started while another renewal is
\* outstanding, and never while or after the delete is outstanding.
C13_OneWriteInFlight ==
    /\ [](\A c \in Clients :
             /\ ~(lock[c].refresh = "sent" /\ lock[c].del = "sent")
             /\ (lock[c].refreshing <=> lock[c].refresh = "sent"))
    /\ [][\A c \in Clients :
             /\ RefreshStarted(c) =>
                   /\ lock[c].refresh = "none" /\ lock[c].del = "none"
                   /\ lock[c].deletes = 0 /\ ~lock[c].released
             /\ DeleteSent(c) =>
                   /\ lock'[c].refresh = "none" /\ lock[c].del = "none"
                   /\ lock[c].deletes = 0]_vars

\* A release is deferred behind the second renewal of a Lock, whose write is
\* the only one in flight.
C13_Witness ==
    \E c \in Clients :
        /\ hist.of[c].refreshes = 2 /\ lock[c].refresh = "sent"
        /\ lock[c].refreshCallback # 0 /\ lock[c].del = "none"

\* The renewal write of client c's Lock is answered in this step.
RefreshDone(c) == lock[c].refresh = "sent" /\ lock'[c].refresh = "none"

\* C14: when a release was called while a renewal was in flight, the step
\* that handles the renewal's answer, success or failure, runs the deferred
\* release: the Lock becomes released, its delete is sent, no renewal timer
\* is left pending, and nothing stays deferred.  No other step drops a
\* deferred release.
C14_DeferredReleaseRuns ==
    [][\A c \in Clients :
          /\ (RefreshDone(c) /\ lock[c].refreshCallback # 0) =>
                /\ lock'[c].released /\ ~lock[c].released
                /\ DeleteSent(c) /\ lock'[c].del = "sent"
                /\ ~lock'[c].timerSet
                /\ lock'[c].refreshCallback = 0
          /\ (lock[c].refreshCallback # 0 /\ lock'[c].refreshCallback = 0) =>
                RefreshDone(c)]_vars

\* A release was deferred behind a renewal, the renewal succeeded, the
\* deferred release ran and its delete is in flight.
C14_Witness ==
    \E c \in Clients :
        /\ hist.of[c].refreshes >= 1 /\ hist.of[c].errorEvents = 0
        /\ Len(hist.of[c].tokens) >= 2
        /\ lock[c].refresh = "none" /\ lock[c].released /\ lock[c].del = "sent"
        /\ hist.of[c].releaseCalls = 1

\* C15: a released Lock has no renewal timer pending (the step that sets
\* released clears it) and no renewal write in flight, and it never starts a
\* renewal.
C15_ReleasedStopsRenewals ==
    /\ [](\A c \in Clients :
             lock[c].released => ~lock[c].timerSet /\ lock[c].refresh = "none")
    /\ [][\A c \in Clients :
             (lock[c].released \/ lock'[c].released) => ~RefreshStarted(c)]_vars

\* A Lock with a heartbeat was released after its first renewal, and more
\* than a heartbeat period has passed since without a second renewal.
C15_Witness ==
    \E c \in Clients :
        /\ config[c].heartbeatPeriodMs # 0
        /\ lock[c].released /\ lock[c].del = "done"
        /\ hist.of[c].refreshes = 1 /\ Len(hist.of[c].tokens) = 2
        /\ now >= 2 + 2 * config[c].heartbeatPeriodMs

\* The renewal write answered in this step failed: the store returned an
\* error, or the record is absent or carries another token than the write's.
RefreshFailed(c) ==
    /\ RefreshDone(c)
    /\ \/ hist'.faults # hist.faults
       \/ ~(table.exists /\ table.recordVersionNumber = lock[c].refreshCond)

\* C16: a renewal write that fails (precondition failure or other error)
\* raises exactly one 'error' event, leaves the Lock's token and the record
\* as they were and sets no timer; unless a release call was deferred
\* behind it, the Lock stays unreleased and sends no delete.  After an
\* 'error' event the Lock starts no renewal and raises no second event, a
\* renewal that succeeds raises none, and a Lock is released only if release
\* was called.
C16_FailedRenewalStops ==
    /\ [][\A c \in Clients :
             /\ RefreshFailed(c) =>
                   /\ hist'.of[c].errorEvents = hist.of[c].errorEvents + 1
                   /\ lock'[c].recordVersionNumber = lock[c].recordVersionNumber
                   /\ ~lock'[c].timerSet
                   /\ table' = table
                   /\ lock[c].refreshCallback = 0 =>
                         ~lock'[c].released /\ ~DeleteSent(c)
             /\ (RefreshDone(c) /\ ~RefreshFailed(c)) =>
                   hist'.of[c].errorEvents = hist.of[c].errorEvents
             /\ hist.of[c].errorEvents >= 1 =>
                   /\ ~RefreshStarted(c)
                   /\ hist'.of[c].errorEvents = hist.of[c].errorEvents]_vars
    /\ [](\A c \in Clients :
             /\ lock[c].released => hist.of[c].releaseCalls >= 1
             /\ hist.of[c].errorEvents >= 1 =>
                   ~lock[c].timerSet /\ lock[c].refresh = "none")

\* A first renewal failed its precondition (no store error): one event, the
\* Lock keeps its acquisition token, is unreleased with no delete sent, and
\* two heartbeat periods later no second renewal has started.
C16_Witness ==
    \E c \in Clients :
        /\ hist.of[c].errorEvents = 1 /\ hist.faults = 0
        /\ hist.of[c].refreshes = 1
        /\ lock[c].recordVersionNumber = hist.of[c].tokens[1]
        /\ ~lock[c].released /\ lock[c].deletes = 0
        /\ now >= 2 + 2 * config[c].heartbeatPeriodMs

\* No value occurs twice in the sequence.
Distinct(seq) == \A i, j \in 1..Len(seq) : i # j => seq[i] # seq[j]
\* How many renewals of client c's Lock have succeeded.
Renewed(c) ==
    hist.of[c].refreshes - hist.of[c].errorEvents
        - (IF lock[c].refresh = "sent" THEN 1 ELSE 0)
\* The token T is stale: the record is held by a client that wrote T
\* earlier and has replaced it since.
Stale(T) ==
    /\ table.exists /\ table.ownerName \in Clients
    /\ T # table.recordVersionNumber
    /\ \E i \in 1..Len(hist.of[table.ownerName].tokens) :
           hist.of[table.ownerName].tokens[i] = T

\* C17: after N successful renewals of a Lock, the record, if nobody else
\* has written it, carries the token of the N-th renewal, which differs from
\* the acquisition's token and from the tokens of the earlier renewals; and
\* a conditional write (overwrite, renewal or delete) conditioned on a stale
\* token fails and leaves the record as it was.
C17_RenewalRotatesToken ==
    /\ [](\A c \in Clients :
             LET tokens == hist.of[c].tokens
             IN  /\ Distinct(tokens)
                 /\ lock[c].constructed => Len(tokens) = 1 + Renewed(c)
                 /\ (table.exists /\ table.ownerName = c) =>
                       /\ lock[c].constructed
                       /\ table.recordVersionNumber = tokens[Len(tokens)])
    /\ [][\A b \in Clients :
             /\ (PutDone(b) /\ acq[b].kind = "existing"
                     /\ Stale(acq[b].item.recordVersionNumber)) =>
                   table' = table /\ ~Granted(b)
             /\ (RefreshDone(b) /\ Stale(lock[b].refreshCond)) => table' = table
             /\ (DeleteDone(b) /\ Stale(lock[b].delCond)) => table' = table]_vars

\* Client 1 inserted the record and renewed it twice, the record carries its
\* third token; client 2, which read one of the earlier tokens and waited,
\* had its overwrite refused.
C17_Witness ==
    /\ hist.of[1].waits = 0 /\ Len(hist.of[1].tokens) = 3
    /\ table.exists /\ table.ownerName = 1
    /\ table.recordVersionNumber = hist.of[1].tokens[3]
    /\ hist.faults = 0
    /\ hist.of[2].reads = 1 /\ hist.of[2].waits = 1
    /\ acq[2].pc = "error" /\ acq[2].error = "FailedToAcquireLock"

\* A storage call of client c's acquireLock (its read or its conditional
\* write) is answered in this step with an error other than a precondition
\* failure.
AcquireFault(c) ==
    /\ acq[c].pc \in {"get", "put"}
    /\ acq'[c] # acq[c]
    /\ hist'.faults # hist.faults

\* C18: a storage failure other than a precondition failure, on the read or
\* on either conditional write of acquireLock, goes to the callback as it
\* is: the call ends with that error, with no retry, no further storage
\* call, the retry budget untouched, no Lock and the record unchanged; and a
\* call that has ended with an error does nothing more.
C18_StorageErrorPassedOn ==
    [][\A c \in Clients :
          /\ AcquireFault(c) =>
                /\ acq'[c].pc = "error" /\ acq'[c].error = "storage"
                /\ acq'[c].called = 1
                /\ acq'[c].retryCount = acq[c].retryCount
                /\ hist'.of[c].reads = hist.of[c].reads
                /\ hist'.of[c].waits = hist.of[c].waits
                /\ hist'.of[c].writes = hist.of[c].writes
                /\ ~lock'[c].constructed
                /\ table' = table
          /\ acq[c].pc = "error" =>
                /\ acq'[c] = acq[c]
                /\ lock'[c] = lock[c] /\ ~lock[c].constructed
                /\ hist'.of[c].reads = hist.of[c].reads
                /\ hist'.of[c].writes = hist.of[c].writes]_vars

\* An overwrite after a wait was answered with a storage error while the
\* call still had a retry left: the call ended with that error.
C18_Witness ==
    \E c \in Clients :
        /\ acq[c].pc = "error" /\ acq[c].error = "storage"
        /\ acq[c].retryCount >= 1
        /\ hist.of[c].reads = 1 /\ hist.of[c].waits = 1 /\ hist.of[c].writes = 1

\* The callback of client c's acquireLock call has been called.
Terminated(c) == acq[c].pc \in {"locked", "error"}

\* C19: every acquireLock call ends: its callback is called, once, with a
\* Lock or with an error, never both and never neither, provided the store
\* answers every request and every wait timer fires; the call reads the
\* record at most 1 + retryCount times, and once ended it stays ended.
C19_AcquireTerminates ==
    /\ \A c \in Clients : (acq[c].pc # "idle") ~> Terminated(c)
    /\ [](\A c \in Clients :
             /\ acq[c].called <= 1
             /\ Terminated(c) <=> acq[c].called = 1
             /\ acq[c].pc = "locked" => (acq[c].error = "none" /\ lock[c].constructed)
             /\ acq[c].pc = "error" => (acq[c].error # "none" /\ ~lock[c].constructed)
             /\ lock[c].constructed => acq[c].pc = "locked"
             /\ hist.of[c].reads <= 1 + retryCountOf(c))
    /\ [][\A c \in Clients : Terminated(c) => acq'[c] = acq[c]]_vars

\* A call has ended with a Lock after using its retry: two reads, two waits,
\* two conditional writes, one callback.
C19_Witness ==
    \E c \in Clients :
        /\ acq[c].pc = "locked" /\ acq[c].called = 1
        /\ hist.of[c].reads = 2 /\ hist.of[c].waits = 2 /\ hist.of[c].writes = 2

\* Client c has called acquireLock with an id that carries no sort key
\* value, under a configuration that names a sort key.
CalledWithoutSortKey(c) ==
    /\ acq[c].pc # "idle"
    /\ config[c].sortKey
    /\ hist.of[c].id = <<Undefined>>

\* C20: when the configuration names a sort key and the id given to
\* acquireLock carries no value for it, the callback gets the validation
\* error in the step of the call itself, no storage call is made (no read,
\* no wait, no write, no token drawn, no Lock) and the record stays as it
\* was; no other call gets that error.
C20_MissingSortKeyRejected ==
    /\ [](\A c \in Clients :
             /\ CalledWithoutSortKey(c) =>
                   /\ acq[c].pc = "error" /\ acq[c].error = "validation"
                   /\ acq[c].called = 1
                   /\ hist.of[c].reads = 0 /\ hist.of[c].waits = 0
                   /\ hist.of[c].writes = 0
                   /\ uuids[c] = 0 /\ ~lock[c].constructed
             /\ acq[c].error = "validation" => CalledWithoutSortKey(c))
    /\ [][\A c \in Clients :
             (~CalledWithoutSortKey(c) /\ CalledWithoutSortKey(c)') =>
                 table' = table]_vars

\* A call without the sort key value was refused while another client holds
\* the record.
C20_Witness ==
    \E c \in Clients :
        /\ CalledWithoutSortKey(c)
        /\ acq[c].error = "validation" /\ acq[c].called = 1
        /\ table.exists /\ table.ownerName \in Clients

\* The token of the last write of client c's Lock that succeeded, after
\* this step: its acquisition's or its latest successful renewal's.
LastWritten(c) == hist'.of[c].tokens[Len(hist'.of[c].tokens)]

\* C21 (as stated): whenever a Lock sends its delete, the token in the
\* delete's condition is the token of the Lock's most recent successful
\* write, also when the release was deferred behind a renewal that then
\* succeeded; and a delete answered without a store error on a record that
\* nobody else has overwritten removes the record.  Violated: the deferred
\* release runs in the renewal's callback before the Lock adopts the new
\* token, so its delete carries the token the renewal has just replaced.
C21_DeleteCarriesCurrentToken ==
    [][\A c \in Clients :
          /\ DeleteSent(c) => lock'[c].delCond = LastWritten(c)
          /\ (DeleteDone(c) /\ hist'.faults = hist.faults
                  /\ table.exists /\ table.ownerName = c) =>
                ~table'.exists]_vars

\* C22: when a renewal write succeeds, the Lock's token becomes the token
\* that renewal wrote (the record's), and the next heartbeat timer is set,
\* one heartbeat period from then, exactly if the Lock is not released at
\* that point; a timer is set only by the construction of the Lock or by the
\* answer to a renewal, never while a renewal is in flight.
C22_RenewalAdoptsAndReschedules ==
    /\ [][\A c \in Clients :
             /\ (RefreshDone(c) /\ ~RefreshFailed(c)) =>
                   /\ lock'[c].recordVersionNumber = lock[c].newGuid
                   /\ lock'[c].recordVersionNumber = table'.recordVersionNumber
                   /\ lock'[c].timerSet <=> ~lock'[c].released
                   /\ lock'[c].timerSet =>
                         lock'[c].timerAt = now + config[c].heartbeatPeriodMs
             /\ (~lock[c].timerSet /\ lock'[c].timerSet) =>
                   \/ RefreshDone(c)
                   \/ ~lock[c].constructed]_vars
    /\ [](\A c \in Clients : lock[c].refresh = "sent" => ~lock[c].timerSet)

\* A first renewal has succeeded on an unreleased Lock: the Lock carries the
\* renewal's token and its next timer is pending.
C22_Witness ==
    \E c \in Clients :
        /\ hist.of[c].refreshes = 1 /\ Len(hist.of[c].tokens) = 2
        /\ lock[c].recordVersionNumber = hist.of[c].tokens[2]
        /\ ~lock[c].released /\ lock[c].timerSet /\ lock[c].timerAt > now

\* The caller calls release on client c's Lock in this step.
ReleaseCalled(c) == hist'.of[c].releaseCalls = hist.of[c].releaseCalls + 1

\* C23 (as stated): a release call made while a release is already deferred
\* behind a renewal in flight is a no-op: it leaves the Lock as it was.
\* Violated: the call puts its own continuation in the place of the one
\* retained.
C23_SecondDeferredCallNoOp ==
    [][\A c \in Clients :
          (ReleaseCalled(c) /\ lock[c].refreshCallback # 0) =>
              lock'[c] = lock[c]]_vars

\* C23 (amended): a Lock retains at most one deferred release, that of the
\* latest release call made during the renewal in flight: such a call only
\* replaces the retained continuation, it sends no delete and does not
\* release.  When the renewal is answered exactly one release runs and one
\* delete is sent, however many calls were deferred, and a Lock never sends
\* a second delete.
C23_OneDeferredRelease ==
    /\ [][\A c \in Clients :
             /\ (ReleaseCalled(c) /\ lock[c].refreshing) =>
                   lock'[c] = [lock[c] EXCEPT
                                  !.refreshCallback = hist'.of[c].releaseCalls]
             /\ (RefreshDone(c) /\ lock[c].refreshCallback # 0) =>
                   /\ lock[c].deletes = 0 /\ lock'[c].deletes = 1
                   /\ lock'[c].released /\ lock'[c].refreshCallback = 0
             /\ (RefreshDone(c) /\ lock[c].refreshCallback = 0) =>
                   lock'[c].deletes = lock[c].deletes]_vars
    /\ [](\A c \in Clients :
             /\ lock[c].deletes <= 1
             /\ lock[c].refreshCallback # 0 =>
                   /\ lock[c].refreshing /\ ~lock[c].released
                   /\ lock[c].refreshCallback = hist.of[c].releaseCalls)

\* Two release calls were made during one renewal, which is still in
\* flight: the continuation retained is the second call's, no delete was
\* sent.
C23_Witness ==
    \E c \in Clients :
        /\ lock[c].refresh = "sent" /\ hist.of[c].releaseCalls = 2
        /\ lock[c].refreshCallback = 2
        /\ ~lock[c].released /\ lock[c].deletes = 0

\* Client a holds an unreleased Lock with a heartbeat, none of whose
\* renewals has failed, and its renewals keep up with the lease: the stored
\* record is a's, and the write that produced it was sent less than the
\* record's lease duration ago.
HolderKeepsUp(a) ==
    /\ lock[a].constructed /\ ~lock[a].released
    /\ config[a].heartbeatPeriodMs # 0
    /\ hist.of[a].errorEvents = 0
    /\ table.exists /\ table.ownerName = a
    /\ now - hist.stamp < OrDefault(table.leaseDuration)

\* C24 (as stated): while a holder's Lock is unreleased and its renewals
\* keep succeeding in time, no conditional write of a competing acquireLock
\* call is granted a Lock.  Violated: a competitor with trustLocalTime that
\* reads a record written without it computes a NaN delay, overwrites at
\* once and is granted a Lock on the holder's fresh record.
C24_NoLockWhileHolderRenews ==
    [][\A a, b \in Clients :
          (a # b /\ HolderKeepsUp(a) /\ PutDone(b)) => ~Granted(b)]_vars
\* What does hold (C24 restricted): a competitor whose delay was a number is
\* never granted a Lock while the holder keeps up.
NaNDelay(b) ==
    /\ config[b].trustLocalTime /\ acq[b].kind = "existing"
    /\ ~IsDefined(acq[b].item.lockAcquiredTimeUnixMs)
C24_NumericDelayOnly ==
    [][\A a, b \in Clients :
          (a # b /\ HolderKeepsUp(a) /\ PutDone(b) /\ ~NaNDelay(b)) =>
              ~Granted(b)]_vars

\* The wait timer of client c's acquireLock call fires in this step: the
\* conditional overwrite is sent.
OverwriteSent(c) == acq[c].pc = "wait" /\ acq'[c].pc = "put"

\* C25 (as stated): a client with trustLocalTime that has read a record
\* carrying no acquisition time sends its overwrite only after a wait that
\* was a number, and, the record read being still the stored one (written
\* by a client of this run), only once the stored lease duration has
\* elapsed since that record was written.  Violated: the delay is NaN and
\* the timer fires at once.
C25_WaitsWithoutStoredTime ==
    [][\A c \in Clients :
          (/\ OverwriteSent(c)
           /\ config[c].trustLocalTime
           /\ ~IsDefined(acq[c].item.lockAcquiredTimeUnixMs)) =>
              /\ IsDefined(hist.of[c].timeout)
              /\ (/\ table.exists /\ table.ownerName \in Clients
                  /\ table.recordVersionNumber = acq[c].item.recordVersionNumber) =>
                    now - hist.stamp >= OrDefault(acq[c].item.leaseDuration)]_vars

\* C26: a Lock created without a heartbeat period never has a renewal timer
\* pending and never starts a renewal: its token stays the acquisition's,
\* it raises no 'error' event, and the only write it sends is the one delete
\* of its release.
C26_NoHeartbeatNoRenewal ==
    /\ [](\A c \in Clients :
             (lock[c].constructed /\ config[c].heartbeatPeriodMs = 0) =>
                 /\ ~lock[c].timerSet /\ lock[c].refresh = "none"
                 /\ ~lock[c].refreshing /\ lock[c].refreshCallback = 0
                 /\ hist.of[c].refreshes = 0 /\ hist.of[c].errorEvents = 0
                 /\ hist.of[c].tokens = <<lock[c].recordVersionNumber>>
                 /\ lock[c].deletes <= 1
                 /\ lock[c].deletes = 1 <=> lock[c].released)
    /\ [][\A c \in Clients :
             (lock[c].constructed /\ config[c].heartbeatPeriodMs = 0) =>
                 /\ lock'[c].recordVersionNumber = lock[c].recordVersionNumber
                 /\ ~RefreshStarted(c)]_vars

\* A Lock without a heartbeat was held for three milliseconds with no
\* renewal, then released; its delete, on its acquisition token, removed the
\* record.
C26_Witness ==
    \E c \in Clients :
        /\ config[c].heartbeatPeriodMs = 0
        /\ lock[c].released /\ lock[c].del = "done" /\ lock[c].deletes = 1
        /\ hist.of[c].delAnswer = "ok" /\ hist.of[c].refreshes = 0
        /\ now >= 3

====
